---------------------------- MODULE Spec2Model ----------------------------
(***************************************************************************)
(* Model of bridge_traffic_display.ino: an ESP8266 sketch that polls the   *)
(* Google Maps distance matrix for a fixed route, classifies the delay     *)
(* into GREEN / YELLOW / RED and animates a NeoPixel strip.                *)
(*                                                                         *)
(* setup() and loop() are modelled statement block by statement block:     *)
(* pc is the position of the single thread of control, every animation     *)
(* frame (one leds.show() followed by its delay) is one step.              *)
(*                                                                         *)
(* millis() is a 32 bit unsigned counter on the ESP8266.  The values do    *)
(* not fit the model checker's integers, so a 32 bit unsigned value is a   *)
(* record of two 16 bit limbs [hi, lo] with exact modular arithmetic.      *)
(***************************************************************************)
EXTENDS Integers, Sequences, FiniteSets, TLC

VARIABLES
    pc,               \* position of the thread of control
    now,              \* the millis() clock (32 bit unsigned, wraps)
    timeNow,          \* loop(): local timeNow
    api_due_time,     \* global, 32 bit unsigned
    led_due_time,     \* global, 32 bit unsigned
    colour,           \* global uint32_t colour
    colourIndex,      \* global int colourIndex
    pixels,           \* the strip: pixel index -> colour last set
    j,                \* frame counter of the running animation loop
    lighterColour,    \* twinkleLed(): local lighterColour
    apiKey,           \* global char apiKey[45], as the string it holds
    shouldSaveConfig, \* global flag set by saveConfigCallback
    portalValue,      \* setup(): what customApiKey.getValue() returned
    mapsApi,          \* global pointer: "null" or "constructed"
    configFile,       \* contents of bridge.config on the flash file system
    loadResult,       \* what loadConfig() returned in this boot ("none" before)
    polled,           \* this loop() iteration entered the poll branch
    pollOk,           \* return value of checkGoogleMaps() in this iteration
    response,         \* checkGoogleMaps(): the response it parsed
    sample,           \* checkGoogleMaps(): the two durations it read
    before,           \* colour, colourIndex, pixels at the moment of the poll
    lastPollAt,       \* timeNow of the iteration that polled last
    pollGap,          \* this poll's timeNow minus the previous poll's (mod 2^32)
    lastPollOk,       \* result of the most recent poll attempt
    lastOkIndex,      \* colourIndex left by the most recent successful poll
    twinkleFrom,      \* colour, colourIndex, pixels when twinkleLed() was entered
    lastTwinkleAt,    \* timeNow of the iteration that played the last twinkle
    fault,            \* which undefined operation was executed, if any
    nTicks,           \* idle clock advances taken so far
    nPolls            \* poll attempts made so far

vars == <<pc, now, timeNow, api_due_time, led_due_time, colour, colourIndex,
          pixels, j, lighterColour, apiKey, shouldSaveConfig, portalValue,
          mapsApi, configFile, loadResult, polled, pollOk, response, sample, before,
          lastPollAt, pollGap, lastPollOk, lastOkIndex, twinkleFrom,
          lastTwinkleAt, fault, nTicks, nPolls>>

----------------------------------------------------------------------------
(* Bounds of the model *)

MaxTicks == 2

MaxPolls == 3

----------------------------------------------------------------------------
(* Program constants *)

GREEN_COLOUR_INDEX == 0
YELLOW_COLOUR_INDEX == 1
RED_COLOUR_INDEX == 2
NUMBER_OF_LEDS == 20
MEDIUM_TRAFFIC_THRESHOLD == 60
BAD_TRAFFIC_THRESHOLD == 300
ApiKeyCapacity == 45
MaxConfigSize == 1024
SweepFrameDelay == 100
TwinkleFrameDelay == 200
TwinklePause == 600
TrafficLabelSize == 23

----------------------------------------------------------------------------
(* 32 bit unsigned arithmetic on two 16 bit limbs *)

Limb == 256 * 256

U32(n) == [hi |-> n \div Limb, lo |-> n % Limb]

U32Max == [hi |-> Limb - 1, lo |-> Limb - 1]

Add32(a, b) ==
    LET s == a.lo + b.lo
    IN  [hi |-> (a.hi + b.hi + (s \div Limb)) % Limb, lo |-> s % Limb]

Sub32(a, b) ==
    LET borrow == IF a.lo < b.lo THEN 1 ELSE 0
    IN  [hi |-> (a.hi - b.hi - borrow + 2 * Limb) % Limb,
         lo |-> (a.lo - b.lo + Limb) % Limb]

Gt32(a, b) == a.hi > b.hi \/ (a.hi = b.hi /\ a.lo > b.lo)

Ge32(a, b) == a = b \/ Gt32(a, b)

delayBetweenApiCalls == U32(1000 * 60)

delayBetweenLedChange == U32(1000 * 10)

----------------------------------------------------------------------------
(* Colours: Adafruit_NeoPixel::Color packs r, g, b into one 32 bit word *)

Color(r, g, b) == r * 65536 + g * 256 + b

Off == Color(0, 0, 0)
GREEN == Color(255, 0, 0)
YELLOW == Color(60, 180, 0)
RED == Color(0, 255, 0)

Leds == 0 .. (NUMBER_OF_LEDS - 1)


----------------------------------------------------------------------------
(* Inputs of the model *)

\* An int read from the JSON document: <<>> when the member is absent.
IntMax == 1073741823 * 2 + 1

Present(v) == <<v>>

Absent == <<>>

\* ArduinoJson's conversion of a member to int: an absent member reads as 0.
AsInt(f) == IF Len(f) = 0 THEN 0 ELSE f[1]

DurationValues == {0, 1000, IntMax}

TrafficValues == {0, 1000, 1050, 1060, 1061, 1100, 1300, 1301, 1400, IntMax}

\* The distance matrix responses the poll can receive.
Response(text, rows, status, duration, traffic) ==
    [text |-> text, rows |-> rows, status |-> status,
     duration |-> duration, traffic |-> traffic]

FailedResponses ==
    { Response("empty", FALSE, "", Absent, Absent),
      Response("garbage", FALSE, "", Absent, Absent),
      Response("object", FALSE, "", Absent, Absent),
      Response("object", TRUE, "", Absent, Absent),
      Response("object", TRUE, "ZERO_RESULTS", Absent, Absent),
      Response("object", TRUE, "NOT_FOUND", Present(1000), Present(1400)) }

OkResponses ==
    { Response("object", TRUE, "OK", d, t) :
        d \in {Present(v) : v \in DurationValues} \cup {Absent},
        t \in {Present(v) : v \in TrafficValues} \cup {Absent} }

Responses == FailedResponses \cup OkResponses

NoResponse == Response("none", FALSE, "", Absent, Absent)

\* How long mapsApi->distanceMatrix() blocks, in ms.
RequestDurations == {U32(300), U32(12000)}

\* Idle time between two loop() iterations, in ms.
Advances == {U32(10000), U32(50000)}

\* The value of millis() when setup() returns: the provisioning portal
\* blocks for as long as the user takes.
SetupDurations == {U32(3000), Sub32(U32Max, U32(60000))}

\* A credential string of n characters.
Key(n, c) == [i \in 1 .. n |-> c]

NoKey == Key(0, "x")
Key39 == Key(39, "a")
Key44 == Key(44, "b")
Key50 == Key(50, "c")

\* What the user can type into the "API Key" field of the portal.
PortalValues == {NoKey, Key39, Key44, Key50}

\* What happens around the provisioning of one boot: a double reset or not,
\* the stored network connects or not, the user keeps the prefilled key or
\* types one, and SPIFFS opens the file for writing or not.
ProvisioningInputs ==
    [drd : BOOLEAN, wifiKnown : BOOLEAN, keep : BOOLEAN,
     entered : PortalValues, openOk : BOOLEAN]

\* The first boot of a device without a config file: either no network is
\* stored, the portal is shown and the user types a 39 character key, or the
\* chip still holds a network from an earlier sketch and connects at once.
FirstBootInputs ==
    {[drd |-> FALSE, wifiKnown |-> FALSE, keep |-> FALSE,
      entered |-> Key39, openOk |-> TRUE],
     [drd |-> FALSE, wifiKnown |-> TRUE, keep |-> TRUE,
      entered |-> NoKey, openOk |-> TRUE]}

\* bridge.config: whether it exists, its size in bytes, whether its bytes
\* are a JSON object, whether they end before the parser has its verdict
\* (the file stops inside an object, or has no bytes at all), and the
\* "mapsApiKey" member if it has one.
File(exists, size, parses, overrun, hasKey, key) ==
    [exists |-> exists, size |-> size, parses |-> parses,
     overrun |-> overrun, hasKey |-> hasKey, key |-> key]

NoFile == File(FALSE, 0, FALSE, FALSE, FALSE, NoKey)

\* {"mapsApiKey":"<key>"} as JsonObject::printTo writes it.
SavedFile(key) == File(TRUE, 17 + Len(key), TRUE, FALSE, TRUE, key)

\* Twelve bytes that do not start an object: the parser gives up on the
\* first of them.
CorruptFile == File(TRUE, 12, FALSE, FALSE, FALSE, NoKey)

\* The twelve bytes {"mapsApiKey : a save that was cut short.
TruncatedFile == File(TRUE, 12, FALSE, TRUE, FALSE, NoKey)

OversizedFile == File(TRUE, MaxConfigSize + 1, TRUE, FALSE, TRUE, Key39)

LargestFile == File(TRUE, MaxConfigSize, TRUE, FALSE, TRUE, Key39)

\* {} : an object without the "mapsApiKey" member.
KeylessFile == File(TRUE, 2, TRUE, FALSE, FALSE, NoKey)

\* A file of no bytes, as left by a save that was cut short.
EmptyFile == File(TRUE, 0, FALSE, TRUE, FALSE, NoKey)

ConfigFiles ==
    {NoFile, SavedFile(Key39), SavedFile(Key44), SavedFile(Key50),
     SavedFile(NoKey), CorruptFile, TruncatedFile, EmptyFile, OversizedFile, LargestFile,
     KeylessFile}

\* What the bytes behind the buffer of loadConfig() can spell as the value of
\* "mapsApiKey" when the parser reads on past the end of the file.  Any
\* string can stand there: the empty one (the bytes ":""} behind the
\* truncated file), short ones, one that just fills apiKey, one that is a
\* single character too long and one that is as long as the portal field.
StrayKeyLengths == {0, 2, 7, 44, 45, 50}

StrayKeys == {Key(n, "z") : n \in StrayKeyLengths}

----------------------------------------------------------------------------
(* Pure functions of the sketch *)

\* strcpy into char apiKey[45]: the string and its terminator must fit.
StrcpyFits(src) == Len(src) + 1 <= ApiKeyCapacity

\* getColour with the thresholds compared by >= instead of >.
getColour_AtThreshold(durationTraffic_value, duration_value) ==
    LET difference == durationTraffic_value - duration_value
    IN  IF difference >= BAD_TRAFFIC_THRESHOLD
        THEN [colour |-> Color(0, 255, 0), colourIndex |-> RED_COLOUR_INDEX]
        ELSE IF difference >= MEDIUM_TRAFFIC_THRESHOLD
        THEN [colour |-> Color(60, 180, 0), colourIndex |-> YELLOW_COLOUR_INDEX]
        ELSE [colour |-> Color(255, 0, 0), colourIndex |-> GREEN_COLOUR_INDEX]

\* getColour leaving RED only when the difference is back under the lower
\* threshold: the result depends on the colourIndex held before the call.
getColour_Hysteresis(durationTraffic_value, duration_value) ==
    LET difference == durationTraffic_value - duration_value
    IN  IF difference > BAD_TRAFFIC_THRESHOLD
           \/ (colourIndex = RED_COLOUR_INDEX
               /\ difference > MEDIUM_TRAFFIC_THRESHOLD)
        THEN [colour |-> Color(0, 255, 0), colourIndex |-> RED_COLOUR_INDEX]
        ELSE IF difference > MEDIUM_TRAFFIC_THRESHOLD
        THEN [colour |-> Color(60, 180, 0), colourIndex |-> YELLOW_COLOUR_INDEX]
        ELSE [colour |-> Color(255, 0, 0), colourIndex |-> GREEN_COLOUR_INDEX]

\* getColour: the colour returned and the colourIndex it leaves behind.
getColour(durationTraffic_value, duration_value) ==
    LET difference == durationTraffic_value - duration_value
    IN  IF difference > BAD_TRAFFIC_THRESHOLD
        THEN [colour |-> Color(0, 255, 0), colourIndex |-> RED_COLOUR_INDEX]
        ELSE IF difference > MEDIUM_TRAFFIC_THRESHOLD
        THEN [colour |-> Color(60, 180, 0), colourIndex |-> YELLOW_COLOUR_INDEX]
        ELSE [colour |-> Color(255, 0, 0), colourIndex |-> GREEN_COLOUR_INDEX]

\* checkGoogleMaps on a response: whether it returns true.
ResponseAccepted(resp) ==
    /\ resp.text = "object"
    /\ resp.rows
    /\ resp.status = "OK"

\* Line 362: "Duration In Traffic:  " + durationInTrafficInSeconds is the
\* address of the literal moved on by the int; println reads the string that
\* starts there.  The read stays inside the literal's TrafficLabelSize bytes
\* only for 0 .. TrafficLabelSize - 1.
PrintlnInBounds(offset) == offset >= 0 /\ offset < TrafficLabelSize

\* checkGoogleMaps on an accepted response: colour and colourIndex are
\* assigned, then line 362 prints.  Out of bounds the read is undefined: the
\* build prints the bytes it finds and returns true, or the read traps and
\* the function never returns (fault).
Classified(resp) ==
    LET durationInSeconds == AsInt(resp.duration)
        durationInTrafficInSeconds == AsInt(resp.traffic)
        c == getColour(durationInTrafficInSeconds, durationInSeconds)
        done == [ret |-> TRUE, fault |-> FALSE, colour |-> c.colour,
                 colourIndex |-> c.colourIndex,
                 sample |-> <<durationInTrafficInSeconds, durationInSeconds>>]
    IN  IF PrintlnInBounds(durationInTrafficInSeconds)
        THEN {done}
        ELSE {done, [done EXCEPT !.ret = FALSE, !.fault = TRUE]}

\* checkGoogleMaps on a response it rejects: nothing is assigned.
Rejected(col, idx) ==
    {[ret |-> FALSE, fault |-> FALSE, colour |-> col, colourIndex |-> idx,
      sample |-> <<>>]}

\* checkGoogleMaps without the test of the element status.
checkGoogleMaps_AnyStatus(resp, col, idx) ==
    IF resp.text = "object" /\ resp.rows
    THEN Classified(resp)
    ELSE Rejected(col, idx)

\* checkGoogleMaps: the outcomes of the call: its return value, colour and
\* colourIndex afterwards, the sample it classified.
checkGoogleMaps(resp, col, idx) ==
    IF ResponseAccepted(resp)
    THEN Classified(resp)
    ELSE Rejected(col, idx)

\* Line 232: strcpy(apiKey, json["mapsApiKey"]) and return true.  A string
\* that does not fit apiKey[45] makes the copy undefined: it traps, or it
\* writes on past the array and loadConfig() returns true with the whole
\* string readable at apiKey.
strcpyKey(src, key) ==
    IF StrcpyFits(src)
    THEN {[ret |-> "true", apiKey |-> src]}
    ELSE {[ret |-> "true", apiKey |-> src], [ret |-> "fault", apiKey |-> key]}

\* loadConfig: the outcomes the call can have.  ret is "false" on the three
\* early returns, "true" after the strcpy, "fault" when the strcpy has no
\* source string or overruns apiKey.  Lines 220-225 hand the parser a buffer
\* of exactly size bytes without a terminator: when the bytes of the file end
\* before the parser has its verdict it reads on behind the buffer
\* (undefined), and what it finds there decides between a failed parse, a
\* fault, and a successful load of a key that is not in the file: the blank
\* key, a key that fits apiKey, or one that overruns it at line 232.
loadConfig(file, key) ==
    IF ~file.exists THEN {[ret |-> "false", apiKey |-> key]}
    ELSE IF file.size > MaxConfigSize THEN {[ret |-> "false", apiKey |-> key]}
    ELSE IF file.overrun
         THEN {[ret |-> "false", apiKey |-> key],
               [ret |-> "fault", apiKey |-> key]}
              \cup UNION {strcpyKey(k, key) : k \in StrayKeys}
    ELSE IF ~file.parses THEN {[ret |-> "false", apiKey |-> key]}
    ELSE IF ~file.hasKey THEN {[ret |-> "fault", apiKey |-> key]}
    ELSE strcpyKey(file.key, key)

\* saveConfig: the file after the call.
saveConfig(key, openOk, file) == IF openOk THEN SavedFile(key) ELSE file

\* lightLeds without its call of unLightAllLeds: the strip stays as it is.
unLightAllLeds_NotCalled == pixels

\* unLightAllLeds
unLightAllLeds == [i \in Leds |-> Off]

\* setAllLeds
setAllLeds(col) == [i \in Leds |-> col]

\* lightLeds with the inner loop stopping one pixel early.
lightLedsFrame_SkipsLast(px, jj, col) ==
    [i \in Leds |-> IF i < jj - 1 THEN col ELSE px[i]]

\* lightLeds, frame jj: pixels 0 .. jj-1 are set to col.
lightLedsFrame(px, jj, col) ==
    [i \in Leds |-> IF i < jj THEN col ELSE px[i]]

\* lightLedsForwards, frame jj.
lightLedsForwardsFrame(jj, newColour, oldColour) ==
    [i \in Leds |-> IF i < jj THEN newColour ELSE setAllLeds(oldColour)[i]]

\* lightLedsBackwards, frame jj.
lightLedsBackwardsFrame(jj, newColour, oldColour) ==
    [i \in Leds |-> IF i >= jj THEN newColour ELSE setAllLeds(oldColour)[i]]

\* twinkleLed: the lighter tint chosen by the switch on colourIndex.
twinkleTint(idx) ==
    CASE idx = GREEN_COLOUR_INDEX -> Color(80, 0, 0)
      [] idx = YELLOW_COLOUR_INDEX -> Color(15, 45, 0)
      [] idx = RED_COLOUR_INDEX -> Color(0, 80, 0)
      [] OTHER -> Color(0, 0, 0)

----------------------------------------------------------------------------
(* Initial state: the static initialisers of the sketch.  The flash holds  *)
(* what an earlier run, or another firmware, left there.                   *)

NoPoll == <<>>

NoPortalValue == <<>>

NoSnapshot == [colour |-> 0, colourIndex |-> 0, pixels |-> [i \in Leds |-> Off]]

InitFlash(files) ==
    /\ pc = "boot"
    /\ now = U32(0)
    /\ timeNow = U32(0)
    /\ api_due_time = U32(0)
    /\ led_due_time = U32(0)
    /\ colour = 0
    /\ colourIndex = 0
    /\ pixels = [i \in Leds |-> Off]
    /\ j = 0
    /\ lighterColour = Off
    /\ apiKey = NoKey
    /\ shouldSaveConfig = FALSE
    /\ portalValue = NoPortalValue
    /\ mapsApi = "null"
    /\ configFile \in files
    /\ loadResult = "none"
    /\ polled = FALSE
    /\ pollOk = FALSE
    /\ response = NoResponse
    /\ sample = <<>>
    /\ before = NoSnapshot
    /\ lastPollAt = NoPoll
    /\ pollGap = NoPoll
    /\ lastPollOk = "none"
    /\ lastOkIndex = NoPoll
    /\ twinkleFrom = NoSnapshot
    /\ lastTwinkleAt = NoPoll
    /\ fault = "none"
    /\ nTicks = 0
    /\ nPolls = 0

\* A fresh device: no config file yet.
Init == InitFlash({NoFile})

\* Any flash contents.
InitBoot == InitFlash(ConfigFiles)

----------------------------------------------------------------------------
(* setup() *)

\* Lines 159-168: the file system does not mount and setup() returns.
SetupMountFails ==
    /\ pc = "boot"
    /\ pixels' = unLightAllLeds
    /\ now' = U32(100)
    /\ pc' = "loop_top"
    /\ UNCHANGED <<timeNow, api_due_time, led_due_time, colour, colourIndex,
                   j, lighterColour, apiKey, shouldSaveConfig, portalValue,
                   mapsApi, configFile, loadResult, polled, pollOk, response,
                   sample, before, lastPollAt, pollGap, lastPollOk,
                   lastOkIndex, twinkleFrom, lastTwinkleAt, fault, nTicks,
                   nPolls>>

\* Lines 159-170: the file system mounts and loadConfig() runs.
SetupLoadConfig ==
    /\ pc = "boot"
    /\ \E r \in loadConfig(configFile, apiKey) :
           /\ r.ret # "fault"
           /\ apiKey' = r.apiKey
           /\ loadResult' = r.ret
    /\ pixels' = unLightAllLeds
    /\ now' = U32(100)
    /\ pc' = "provision"
    /\ UNCHANGED <<timeNow, api_due_time, led_due_time, colour, colourIndex,
                   j, lighterColour, shouldSaveConfig, portalValue, mapsApi,
                   configFile, polled, pollOk, response, sample, before,
                   lastPollAt, pollGap, lastPollOk, lastOkIndex, twinkleFrom,
                   lastTwinkleAt, fault, nTicks, nPolls>>

\* Lines 225, 232: loadConfig() parses behind the end of its buffer, or copies
\* from a missing member or a string longer than apiKey: undefined behaviour.
SetupLoadConfigFault ==
    /\ pc = "boot"
    /\ \E r \in loadConfig(configFile, apiKey) : r.ret = "fault"
    /\ pixels' = unLightAllLeds
    /\ now' = U32(100)
    /\ fault' = "loadConfig"
    /\ pc' = "undefined"
    /\ UNCHANGED <<timeNow, api_due_time, led_due_time, colour, colourIndex,
                   j, lighterColour, apiKey, shouldSaveConfig, portalValue,
                   mapsApi, configFile, loadResult, polled, pollOk, response,
                   sample, before, lastPollAt, pollGap, lastPollOk,
                   lastOkIndex, twinkleFrom, lastTwinkleAt, nTicks, nPolls>>

\* Lines 180-186: the portal runs after a double reset or when the stored
\* network does not connect.
PortalShown(in) == in.drd \/ ~in.wifiKnown

\* Lines 177, 188: customApiKey.getValue() is the text of the form field if
\* the user changed it in the portal, else the default it was built with.
PortalValue(in, key) ==
    IF PortalShown(in) /\ ~in.keep THEN in.entered ELSE key

\* Lines 143-146: saving in the portal calls saveConfigCallback.
saveConfigCallback(flag, saved) == flag \/ saved

\* saveConfig() called without looking at the flag.
SavesConfig_Always(flag) == TRUE

\* Line 190: if (shouldSaveConfig)
SavesConfig(flag) == flag

\* Lines 172-204: provisioning, saveConfig() if asked for, the API client.
\* When the value does not fit apiKey[45] the strcpy of line 188 is undefined;
\* this is the outcome in which it writes on past the array and setup() goes
\* on with the whole string (the other outcome is SetupProvisionFault).
Provision(in, t) ==
    LET value == PortalValue(in, apiKey)
        save == saveConfigCallback(shouldSaveConfig, PortalShown(in))
    IN  /\ pc = "provision"
        /\ portalValue' = <<value>>
        /\ apiKey' = value
        /\ shouldSaveConfig' = save
        /\ configFile' = IF SavesConfig(save)
                         THEN saveConfig(value, in.openOk, configFile)
                         ELSE configFile
        /\ now' = t
        /\ mapsApi' = "constructed"
        /\ colour' = Color(255, 0, 0)
        /\ pc' = "loop_top"
    /\ UNCHANGED <<timeNow, api_due_time, led_due_time, colourIndex, pixels,
                   j, lighterColour, loadResult, polled, pollOk, response,
                   sample, before, lastPollAt, pollGap, lastPollOk,
                   lastOkIndex, twinkleFrom, lastTwinkleAt, fault, nTicks,
                   nPolls>>

SetupProvision ==
    \E in \in ProvisioningInputs, t \in SetupDurations : Provision(in, t)

SetupFirstProvision ==
    \E in \in FirstBootInputs, t \in SetupDurations : Provision(in, t)

\* Line 188: the value of the form field (up to 50 characters) does not fit
\* apiKey[45]: undefined behaviour; this is the outcome in which the strcpy
\* traps and setup() never returns.
SetupProvisionFault ==
    /\ pc = "provision"
    /\ \E in \in ProvisioningInputs, t \in SetupDurations :
          /\ ~StrcpyFits(PortalValue(in, apiKey))
          /\ now' = t
          /\ portalValue' = <<PortalValue(in, apiKey)>>
          /\ shouldSaveConfig' =
                 saveConfigCallback(shouldSaveConfig, PortalShown(in))
    /\ fault' = "strcpy in setup"
    /\ pc' = "undefined"
    /\ UNCHANGED <<timeNow, api_due_time, led_due_time, colour, colourIndex,
                   pixels, j, lighterColour, apiKey, mapsApi, configFile,
                   loadResult, polled, pollOk, response, sample, before,
                   lastPollAt, pollGap, lastPollOk, lastOkIndex, twinkleFrom,
                   lastTwinkleAt, nTicks, nPolls>>

----------------------------------------------------------------------------
(* loop() *)

\* Line 391: timeNow > api_due_time
PollIsDue(tn, due) == Gt32(tn, due)

\* Line 400: timeNow > led_due_time
TwinkleIsDue(tn, due) == Gt32(tn, due)

\* Line 396: api_due_time = timeNow + delayBetweenApiCalls
ApiDueAfterPoll(tn) == Add32(tn, delayBetweenApiCalls)

\* Line 397 moved into the if of line 393.
LedDueAfterPoll_OnSuccessOnly(tn, ok, old) ==
    IF ok THEN Add32(tn, delayBetweenLedChange) ELSE old

\* Line 397: led_due_time = timeNow + delayBetweenLedChange, whether or not
\* the poll succeeded.
LedDueAfterPoll(tn, ok, old) == Add32(tn, delayBetweenLedChange)

\* Line 403: led_due_time = timeNow + delayBetweenLedChange
LedDueAfterTwinkle(tn) == Add32(tn, delayBetweenLedChange)

\* lightLeds(colour) called whatever checkGoogleMaps() returns.
SweepAfterPoll_Always(ok) == TRUE

\* Lines 393-394: lightLeds(colour) is called iff checkGoogleMaps() is true.
SweepAfterPoll(ok) == ok

\* The clock moves on between two iterations of loop().
Tick ==
    /\ pc = "loop_top"
    /\ nTicks < MaxTicks
    /\ \E d \in Advances : now' = Add32(now, d)
    /\ nTicks' = nTicks + 1
    /\ UNCHANGED <<pc, timeNow, api_due_time, led_due_time, colour,
                   colourIndex, pixels, j, lighterColour, apiKey,
                   shouldSaveConfig, portalValue, mapsApi, configFile,
                   loadResult, polled, pollOk, response, sample, before,
                   lastPollAt, pollGap, lastPollOk, lastOkIndex, twinkleFrom,
                   lastTwinkleAt, fault, nPolls>>

\* Lines 390-393: the poll is due, checkGoogleMaps() runs on a response and
\* returns.
Poll(resp, d) ==
    \E r \in checkGoogleMaps(resp, colour, colourIndex) :
        /\ ~r.fault
        /\ pc = "loop_top"
        /\ PollIsDue(now, api_due_time)
        /\ mapsApi = "constructed"
        /\ nPolls < MaxPolls
        /\ timeNow' = now
        /\ now' = Add32(now, d)
        /\ colour' = r.colour
        /\ colourIndex' = r.colourIndex
        /\ response' = resp
        /\ sample' = r.sample
        /\ polled' = TRUE
        /\ pollOk' = r.ret
        /\ before' = [colour |-> colour, colourIndex |-> colourIndex,
                      pixels |-> pixels]
        /\ pollGap' = IF lastPollAt = NoPoll THEN NoPoll
                      ELSE <<Sub32(now, lastPollAt[1])>>
        /\ lastPollAt' = <<now>>
        /\ lastPollOk' = IF r.ret THEN "ok" ELSE "failed"
        /\ lastOkIndex' = IF r.ret THEN <<r.colourIndex>> ELSE lastOkIndex
        /\ nPolls' = nPolls + 1
        /\ pc' = IF SweepAfterPoll(r.ret) THEN "sweep_start" ELSE "resched"
    /\ UNCHANGED <<api_due_time, led_due_time, pixels, j, lighterColour,
                   apiKey, shouldSaveConfig, portalValue, mapsApi,
                   configFile, loadResult, twinkleFrom, lastTwinkleAt, fault,
                   nTicks>>

PollSucceeds ==
    \E resp \in OkResponses, d \in RequestDurations : Poll(resp, d)

PollFails ==
    \E resp \in FailedResponses, d \in RequestDurations : Poll(resp, d)

\* Line 362: checkGoogleMaps() has assigned colour and colourIndex, and the
\* println reads outside the string literal and traps: undefined behaviour,
\* checkGoogleMaps() does not return.
PollPrintFault ==
    /\ pc = "loop_top"
    /\ PollIsDue(now, api_due_time)
    /\ mapsApi = "constructed"
    /\ nPolls < MaxPolls
    /\ \E resp \in Responses, d \in RequestDurations :
          \E r \in checkGoogleMaps(resp, colour, colourIndex) :
              /\ r.fault
              /\ now' = Add32(now, d)
              /\ colour' = r.colour
              /\ colourIndex' = r.colourIndex
              /\ response' = resp
              /\ sample' = r.sample
    /\ timeNow' = now
    /\ polled' = TRUE
    /\ before' = [colour |-> colour, colourIndex |-> colourIndex,
                  pixels |-> pixels]
    /\ pollGap' = IF lastPollAt = NoPoll THEN NoPoll
                  ELSE <<Sub32(now, lastPollAt[1])>>
    /\ lastPollAt' = <<now>>
    /\ nPolls' = nPolls + 1
    /\ fault' = "println in checkGoogleMaps"
    /\ pc' = "undefined"
    /\ UNCHANGED <<api_due_time, led_due_time, pixels, j, lighterColour,
                   apiKey, shouldSaveConfig, portalValue, mapsApi,
                   configFile, loadResult, pollOk, lastPollOk, lastOkIndex,
                   twinkleFrom, lastTwinkleAt, nTicks>>

\* Line 350: setup() returned before constructing the API client and the
\* poll calls through the null pointer: undefined behaviour.
PollNullClient ==
    /\ pc = "loop_top"
    /\ PollIsDue(now, api_due_time)
    /\ mapsApi = "null"
    /\ timeNow' = now
    /\ polled' = TRUE
    /\ lastPollAt' = <<now>>
    /\ nPolls' = nPolls + 1
    /\ fault' = "null mapsApi"
    /\ pc' = "undefined"
    /\ UNCHANGED <<now, api_due_time, led_due_time, colour, colourIndex,
                   pixels, j, lighterColour, apiKey, shouldSaveConfig,
                   portalValue, mapsApi, configFile, loadResult, pollOk,
                   response, sample, before, pollGap, lastPollOk,
                   lastOkIndex, twinkleFrom, lastTwinkleAt, nTicks>>

\* Lines 390-391: the poll is not due.
LoopSkipsPoll ==
    /\ pc = "loop_top"
    /\ ~PollIsDue(now, api_due_time)
    /\ timeNow' = now
    /\ pc' = "led_check"
    /\ UNCHANGED <<now, api_due_time, led_due_time, colour, colourIndex,
                   pixels, j, lighterColour, apiKey, shouldSaveConfig,
                   portalValue, mapsApi, configFile, loadResult, polled,
                   pollOk, response, sample, before, lastPollAt, pollGap,
                   lastPollOk, lastOkIndex, twinkleFrom, lastTwinkleAt,
                   fault, nTicks, nPolls>>

\* Line 283: lightLeds() starts by switching every pixel off.
SweepBegin ==
    /\ pc = "sweep_start"
    /\ pixels' = unLightAllLeds
    /\ j' = 1
    /\ response' = NoResponse
    /\ sample' = <<>>
    /\ pc' = "sweep"
    /\ UNCHANGED <<now, timeNow, api_due_time, led_due_time, colour,
                   colourIndex, lighterColour, apiKey, shouldSaveConfig,
                   portalValue, mapsApi, configFile, loadResult, polled,
                   pollOk, before, lastPollAt, pollGap, lastPollOk,
                   lastOkIndex, twinkleFrom, lastTwinkleAt, fault, nTicks,
                   nPolls>>

\* Lines 284-290: one frame of lightLeds(colour) and its delay(100).
SweepFrame ==
    /\ pc = "sweep"
    /\ pixels' = lightLedsFrame(pixels, j, colour)
    /\ now' = Add32(now, U32(SweepFrameDelay))
    /\ IF j < NUMBER_OF_LEDS
       THEN j' = j + 1 /\ pc' = "sweep"
       ELSE j' = 0 /\ pc' = "resched"
    /\ UNCHANGED <<timeNow, api_due_time, led_due_time, colour, colourIndex,
                   lighterColour, apiKey, shouldSaveConfig, portalValue,
                   mapsApi, configFile, loadResult, polled, pollOk, response,
                   sample, before, lastPollAt, pollGap, lastPollOk,
                   lastOkIndex, twinkleFrom, lastTwinkleAt, fault, nTicks,
                   nPolls>>

\* Lines 396-397: both deadlines are set from the timestamp read at line 390.
Reschedule ==
    /\ pc = "resched"
    /\ api_due_time' = ApiDueAfterPoll(timeNow)
    /\ led_due_time' = LedDueAfterPoll(timeNow, pollOk, led_due_time)
    /\ response' = NoResponse
    /\ sample' = <<>>
    /\ pc' = "led_check"
    /\ UNCHANGED <<now, timeNow, colour, colourIndex, pixels, j,
                   lighterColour, apiKey, shouldSaveConfig, portalValue,
                   mapsApi, configFile, loadResult, polled, pollOk, before,
                   lastPollAt, pollGap, lastPollOk, lastOkIndex, twinkleFrom,
                   lastTwinkleAt, fault, nTicks, nPolls>>

\* Lines 399-402, 323-341: the twinkle is due; twinkleLed() picks its tint.
TwinkleBegin ==
    /\ pc = "led_check"
    /\ TwinkleIsDue(now, led_due_time)
    /\ timeNow' = now
    /\ lighterColour' = twinkleTint(colourIndex)
    /\ twinkleFrom' = [colour |-> colour, colourIndex |-> colourIndex,
                       pixels |-> pixels]
    /\ lastTwinkleAt' = <<now>>
    /\ j' = 1
    /\ pc' = "twinkle_fwd"
    /\ UNCHANGED <<now, api_due_time, led_due_time, colour, colourIndex,
                   pixels, apiKey, shouldSaveConfig, portalValue, mapsApi,
                   configFile, loadResult, polled, pollOk, response, sample,
                   before, lastPollAt, pollGap, lastPollOk, lastOkIndex,
                   fault, nTicks, nPolls>>

\* Lines 399-400: the twinkle is not due; loop() returns.
NoTwinkle ==
    /\ pc = "led_check"
    /\ ~TwinkleIsDue(now, led_due_time)
    /\ timeNow' = now
    /\ polled' = FALSE
    /\ pollOk' = FALSE
    /\ before' = NoSnapshot
    /\ pollGap' = NoPoll
    /\ pc' = "loop_top"
    /\ UNCHANGED <<now, api_due_time, led_due_time, colour, colourIndex,
                   pixels, j, lighterColour, apiKey, shouldSaveConfig,
                   portalValue, mapsApi, configFile, loadResult, response,
                   sample, lastPollAt, lastPollOk, lastOkIndex, twinkleFrom,
                   lastTwinkleAt, fault, nTicks, nPolls>>

\* Lines 301-308: one frame of lightLedsForwards(lighterColour, colour).
TwinkleForwardFrame ==
    /\ pc = "twinkle_fwd"
    /\ pixels' = lightLedsForwardsFrame(j, lighterColour, colour)
    /\ now' = Add32(now, U32(TwinkleFrameDelay))
    /\ IF j < NUMBER_OF_LEDS
       THEN j' = j + 1 /\ pc' = "twinkle_fwd"
       ELSE j' = 0 /\ pc' = "twinkle_pause"
    /\ UNCHANGED <<timeNow, api_due_time, led_due_time, colour, colourIndex,
                   lighterColour, apiKey, shouldSaveConfig, portalValue,
                   mapsApi, configFile, loadResult, polled, pollOk, response,
                   sample, before, lastPollAt, pollGap, lastPollOk,
                   lastOkIndex, twinkleFrom, lastTwinkleAt, fault, nTicks,
                   nPolls>>

\* Line 344: delay(600)
TwinklePauseStep ==
    /\ pc = "twinkle_pause"
    /\ now' = Add32(now, U32(TwinklePause))
    /\ j' = NUMBER_OF_LEDS - 1
    /\ pc' = "twinkle_back"
    /\ UNCHANGED <<timeNow, api_due_time, led_due_time, colour, colourIndex,
                   pixels, lighterColour, apiKey, shouldSaveConfig,
                   portalValue, mapsApi, configFile, loadResult, polled,
                   pollOk, response, sample, before, lastPollAt, pollGap,
                   lastPollOk, lastOkIndex, twinkleFrom, lastTwinkleAt,
                   fault, nTicks, nPolls>>

\* Lines 312-319: one frame of lightLedsBackwards(colour, lighterColour).
TwinkleBackwardFrame ==
    /\ pc = "twinkle_back"
    /\ pixels' = lightLedsBackwardsFrame(j, colour, lighterColour)
    /\ now' = Add32(now, U32(TwinkleFrameDelay))
    /\ IF j - 1 > 0
       THEN j' = j - 1 /\ pc' = "twinkle_back"
       ELSE j' = 0 /\ pc' = "led_resched"
    /\ UNCHANGED <<timeNow, api_due_time, led_due_time, colour, colourIndex,
                   lighterColour, apiKey, shouldSaveConfig, portalValue,
                   mapsApi, configFile, loadResult, polled, pollOk, response,
                   sample, before, lastPollAt, pollGap, lastPollOk,
                   lastOkIndex, twinkleFrom, lastTwinkleAt, fault, nTicks,
                   nPolls>>

\* Line 403: the twinkle deadline is set from the timestamp read at line 399;
\* loop() returns.
TwinkleReschedule ==
    /\ pc = "led_resched"
    /\ led_due_time' = LedDueAfterTwinkle(timeNow)
    /\ twinkleFrom' = NoSnapshot
    /\ polled' = FALSE
    /\ pollOk' = FALSE
    /\ before' = NoSnapshot
    /\ pollGap' = NoPoll
    /\ pc' = "loop_top"
    /\ UNCHANGED <<now, timeNow, api_due_time, colour, colourIndex, pixels,
                   j, lighterColour, apiKey, shouldSaveConfig, portalValue,
                   mapsApi, configFile, loadResult, response, sample,
                   lastPollAt, lastPollOk, lastOkIndex, lastTwinkleAt, fault,
                   nTicks, nPolls>>

----------------------------------------------------------------------------
(* Specifications *)

\* The sketch on a fresh device: setup(), then loop() for ever.
Next ==
    \/ SetupMountFails
    \/ SetupLoadConfig
    \/ SetupFirstProvision
    \/ Tick
    \/ PollSucceeds
    \/ PollFails
    \/ PollPrintFault
    \/ PollNullClient
    \/ LoopSkipsPoll
    \/ SweepBegin
    \/ SweepFrame
    \/ Reschedule
    \/ TwinkleBegin
    \/ NoTwinkle
    \/ TwinkleForwardFrame
    \/ TwinklePauseStep
    \/ TwinkleBackwardFrame
    \/ TwinkleReschedule

Spec == Init /\ [][Next]_vars

\* setup() alone, on every flash content and every provisioning input.
NextBoot ==
    \/ SetupMountFails
    \/ SetupLoadConfig
    \/ SetupLoadConfigFault
    \/ SetupProvision
    \/ SetupProvisionFault

SpecBoot == InitBoot /\ [][NextBoot]_vars


----------------------------------------------------------------------------
(* Claims *)

\* The classification as section 4.1 of the specification states it.
SpecColour(delta) ==
    IF delta > 300 THEN RED ELSE IF delta > 60 THEN YELLOW ELSE GREEN

SpecIndex(delta) ==
    IF delta > 300 THEN 2 ELSE IF delta > 60 THEN 1 ELSE 0

AllPixels(col) == \A i \in Leds : pixels[i] = col

\* C1: for durations a >= 0 (without traffic) and b >= 0 (with traffic),
\* getColour(b, a) yields exactly one of GREEN, YELLOW, RED: RED iff
\* b - a > 300, YELLOW iff 60 < b - a <= 300, GREEN otherwise.  Checked on
\* the colour held right after checkGoogleMaps() classified a sample.
C1_Classification ==
    (pc = "sweep_start") =>
        LET delta == sample[1] - sample[2]
        IN  /\ sample[1] >= 0 /\ sample[2] >= 0
            /\ colour \in {GREEN, YELLOW, RED}
            /\ (colour = RED) <=> (delta > 300)
            /\ (colour = YELLOW) <=> (delta > 60 /\ delta <= 300)
            /\ (colour = GREEN) <=> (delta <= 60)

\* A sample exactly at the upper boundary has been classified.
C1_Witness ==
    /\ pc = "sweep_start"
    /\ sample[1] - sample[2] = 300
    /\ colour = YELLOW

\* A response that is empty, unparsable, without "rows" or whose element
\* status is not "OK", in the words of the claim.
Malformed(r) ==
    \/ r.text \in {"empty", "garbage"}
    \/ ~r.rows
    \/ r.status # "OK"

DisplayAsBeforePoll ==
    /\ colour = before.colour
    /\ colourIndex = before.colourIndex
    /\ pixels = before.pixels

\* C2 as claimed: a poll whose response is empty, unparsable, lacks "rows" or
\* has an element status other than "OK" makes checkGoogleMaps() return
\* false, and the loop iteration handling it plays no sweep and leaves colour,
\* colourIndex and every pixel as they were before the poll, up to the end
\* of the iteration.
C2_FailedPollKeepsDisplay ==
    /\ (response # NoResponse /\ Malformed(response)) =>
           (pc = "resched" /\ ~pollOk)
    /\ (polled /\ ~pollOk /\ pc # "undefined") =>
           (pc \notin {"sweep_start", "sweep"} /\ DisplayAsBeforePoll)

\* C2 as amended: such a poll makes checkGoogleMaps() return false; the poll
\* branch of that iteration (lines 391-398) plays no sweep and leaves colour,
\* colourIndex and every pixel as they were before the poll; the rest of the
\* iteration (lines 399-404) plays no sweep either and keeps colour and
\* colourIndex, while its twinkle may repaint pixels.
C2_FailedPollBranchKeepsDisplay ==
    /\ (response # NoResponse /\ Malformed(response)) =>
           (pc = "resched" /\ ~pollOk /\ DisplayAsBeforePoll)
    /\ (polled /\ ~pollOk /\ pc \in {"resched", "led_check"}) =>
           DisplayAsBeforePoll
    /\ (polled /\ ~pollOk /\ pc # "undefined") =>
           /\ pc \notin {"sweep_start", "sweep"}
           /\ colour = before.colour
           /\ colourIndex = before.colourIndex

\* A poll failed while the strip showed RED, and the poll branch is over.
C2_Witness ==
    /\ pc = "led_check"
    /\ polled /\ ~pollOk
    /\ lastPollOk = "failed"
    /\ colour = RED
    /\ AllPixels(RED)

\* C3 as claimed: after a failed poll only api_due_time is rescheduled and
\* led_due_time keeps its value.
C3_FailedPollKeepsLedDeadline ==
    [][(pc = "resched" /\ ~pollOk) =>
          /\ api_due_time' = Add32(timeNow, U32(60000))
          /\ led_due_time' = led_due_time]_vars

\* C3 as amended: after a failed poll loop() reschedules both deadlines from
\* the iteration's timestamp, exactly as after a successful one.
C3_FailedPollReschedulesBoth ==
    [][(pc = "resched" /\ ~pollOk) =>
          /\ api_due_time' = Add32(timeNow, U32(60000))
          /\ led_due_time' = Add32(timeNow, U32(10000))]_vars

\* A failed poll has just been rescheduled, and it moved led_due_time, which
\* an earlier twinkle or poll had set.
C3_Witness ==
    /\ pc = "led_check"
    /\ polled /\ ~pollOk
    /\ nPolls >= 2
    /\ timeNow = lastPollAt[1]
    /\ led_due_time = Add32(timeNow, U32(10000))

\* C4 as claimed: between a failed poll and the next poll attempt no step
\* alters a pixel.
C4_NoAnimationAfterFailedPoll ==
    [][(lastPollOk = "failed") => (pixels' = pixels)]_vars

\* C4 as amended: between a failed poll and the next poll attempt no sweep
\* runs; the only steps that alter a pixel are frames of the twinkle, which
\* is played whenever the clock exceeds led_due_time, also when the failed
\* poll is the first after boot and the strip is still dark.
C4_OnlyTwinkleAfterFailedPoll ==
    [][(lastPollOk = "failed" /\ pixels' # pixels) =>
          (pc \in {"twinkle_fwd", "twinkle_back"})]_vars

\* The first poll after boot failed and the twinkle has lit the dark strip.
C4_Witness ==
    /\ lastPollOk = "failed"
    /\ nPolls = 1
    /\ pc = "twinkle_fwd"
    /\ pixels[0] # Off

\* C5: on a successful poll the iteration first sets colour / colourIndex to
\* the classification of the sample (the strip and the deadlines untouched),
\* then sweeps with that colour, and when the sweep is over every pixel shows
\* it; only then both deadlines are set to the timestamp read before the
\* poll plus their intervals.
C5_SuccessfulPoll ==
    [][/\ (pc' = "sweep_start") =>
              /\ colour' = SpecColour(sample'[1] - sample'[2])
              /\ colourIndex' = SpecIndex(sample'[1] - sample'[2])
              /\ pixels' = pixels
              /\ api_due_time' = api_due_time
              /\ led_due_time' = led_due_time
       /\ (pc \in {"sweep_start", "sweep"}) =>
              /\ colour' = colour
              /\ \A i \in Leds : pixels'[i] \in {colour, Off}
              /\ api_due_time' = api_due_time
              /\ led_due_time' = led_due_time
       /\ (pc = "resched" /\ pollOk) =>
              /\ AllPixels(colour)
              /\ api_due_time' = Add32(lastPollAt[1], U32(60000))
              /\ led_due_time' = Add32(lastPollAt[1], U32(10000))]_vars

\* A successful poll turned a YELLOW strip RED and rescheduled both
\* deadlines.
C5_Witness ==
    /\ pc = "led_check"
    /\ polled /\ pollOk
    /\ before.colour = YELLOW
    /\ colour = RED
    /\ AllPixels(RED)
    /\ api_due_time = Add32(lastPollAt[1], U32(60000))
    /\ led_due_time = Add32(lastPollAt[1], U32(10000))

\* C6 as claimed: the timestamps of two consecutive poll attempts differ by
\* more than delayBetweenApiCalls (60000 ms).
C6_OnePollPerInterval ==
    (pollGap # NoPoll) => Gt32(pollGap[1], U32(60000))

\* C7 as claimed: every assignment to api_due_time and to led_due_time
\* stores a value greater than or equal to the one it replaces.
C7_DeadlinesMonotonic ==
    [][/\ Ge32(api_due_time', api_due_time)
       /\ Ge32(led_due_time', led_due_time)]_vars

\* C8 as claimed: no reachable value of api_due_time starves the poller.
\* The poll needs a clock value with timeNow > api_due_time, and the clock
\* never exceeds 2^32 - 1.
C8_DeadlineCanBeExceeded ==
    \E t \in {U32Max} : Gt32(t, api_due_time)

\* C9 as claimed: whenever loop() has made a poll attempt, mapsApi had been
\* constructed.
C9_PollsUseConstructedClient ==
    (nPolls > 0) => (mapsApi = "constructed")

\* C10 as claimed: if the config file is missing, larger than 1024 bytes, or
\* its bytes do not parse as a JSON object, loadConfig() returns false and
\* apiKey still holds the blank default; apart from the file itself the state
\* is the one of a boot without any config file.
C10_BadConfigIgnored ==
    (/\ pc = "provision" \/ fault = "loadConfig"
     /\ \/ ~configFile.exists
        \/ configFile.size > 1024
        \/ ~configFile.parses) =>
        /\ pc = "provision"
        /\ loadResult = "false"
        /\ apiKey = NoKey
        /\ shouldSaveConfig = FALSE
        /\ mapsApi = "null"

\* C11 as claimed: every string the portal can deliver (up to 50 characters)
\* is copied into apiKey at line 188 by a defined operation, and once
\* saveConfig() has written it, loadConfig() on that file yields an apiKey
\* identical to the string that was entered.
C11_ConfigRoundTrip ==
    /\ (portalValue # NoPortalValue) => (pc # "undefined")
    /\ (pc = "loop_top" /\ portalValue # NoPortalValue) =>
           /\ apiKey = portalValue[1]
           /\ (shouldSaveConfig /\ configFile = SavedFile(apiKey)) =>
                  loadConfig(configFile, NoKey) =
                      {[ret |-> "true", apiKey |-> portalValue[1]]}

\* C12: the config file is read once, at startup, and written only by
\* setup() after saveConfigCallback has set shouldSaveConfig: no step of
\* loop(), of a poll or of an animation changes the file or reads it again.
C12_ConfigWrittenOnlyInSetup ==
    [][/\ (configFile' # configFile) =>
              (pc = "provision" /\ shouldSaveConfig')
       /\ (loadResult' # loadResult) =>
              (pc = "boot" /\ loadResult = "none")]_vars

\* setup() saved the key typed into the portal, and loop() has since polled
\* and is playing a twinkle with the file as setup() left it.
C12_Witness ==
    /\ pc = "twinkle_back"
    /\ nPolls >= 1
    /\ shouldSaveConfig
    /\ loadResult = "false"
    /\ configFile = SavedFile(Key39)

\* getColour called again with the pair that was classified last.
ClassifiedAgain == getColour(sample[1], sample[2])

\* C13: classification is idempotent and deterministic.  Whatever colour and
\* colourIndex were held before, the call leaves the colour and colourIndex
\* that belong to the pair (with_traffic, without_traffic) alone, and a second
\* call with the same pair, made from the state the first one left, returns
\* that colour and leaves colourIndex at that value again.
C13_ClassificationIdempotent ==
    [][(pc' = "sweep_start") =>
          LET first == [colour |-> colour', colourIndex |-> colourIndex']
              delta == sample'[1] - sample'[2]
          IN  /\ first = [colour |-> SpecColour(delta),
                          colourIndex |-> SpecIndex(delta)]
              /\ ClassifiedAgain' = first]_vars

\* A pair was classified YELLOW while RED was held, and the same class could
\* have been reached from GREEN.
C13_Witness ==
    /\ pc = "sweep_start"
    /\ before.colour = RED /\ before.colourIndex = 2
    /\ colour = YELLOW /\ colourIndex = 1
    /\ sample = <<1100, 1000>>

\* C14 as claimed: when twinkleLed() was entered with every pixel showing
\* the current colour, then at its return every one of the NUMBER_OF_LEDS
\* pixels shows the current colour again, and colour and colourIndex are
\* the ones held at entry.
C14_TwinkleRestoresStrip ==
    (/\ pc = "led_resched"
     /\ \A i \in Leds : twinkleFrom.pixels[i] = twinkleFrom.colour) =>
        /\ \A i \in Leds : pixels[i] = colour
        /\ colour = twinkleFrom.colour
        /\ colourIndex = twinkleFrom.colourIndex

\* C15 as claimed: frame j (1 <= j <= N) of the sweep played after a
\* successful poll shows the new colour on pixels 0 .. j-1 and, on pixels
\* j .. N-1, the colour the strip displayed before the poll.
C15_SweepFromPreviousColour ==
    [][(pc = "sweep") =>
          \A i \in Leds :
              pixels'[i] = IF i < j THEN colour ELSE before.pixels[i]]_vars

\* C15 as amended: lightLeds() first switches the whole strip off, so frame j
\* (1 <= j <= N) shows the new colour on pixels 0 .. j-1 and pixels j .. N-1
\* dark: each shown frame contains only the new colour and off.
C15_SweepFromDark ==
    [][/\ (pc = "sweep_start") => (\A i \in Leds : pixels'[i] = Off)
       /\ (pc = "sweep") =>
              \A i \in Leds :
                  pixels'[i] = IF i < j THEN colour ELSE Off]_vars

\* Frame 10 of a sweep that turns a RED strip YELLOW is on show.
C15_Witness ==
    /\ pc = "sweep"
    /\ j = 11
    /\ \A i \in Leds : before.pixels[i] = RED
    /\ colour = YELLOW
    /\ \A i \in 0 .. 9 : pixels[i] = YELLOW
    /\ \A i \in 10 .. 19 : pixels[i] = Off

\* C16 as claimed: a response whose element status is "OK" but which lacks
\* the duration value, the duration_in_traffic value or both is a failed
\* poll: checkGoogleMaps() returns false, no sweep follows, and colour and
\* colourIndex are the ones held before the poll.
C16_MissingDurationsFail ==
    (/\ response # NoResponse
     /\ response.text = "object" /\ response.rows /\ response.status = "OK"
     /\ (response.duration = Absent \/ response.traffic = Absent)) =>
        /\ ~pollOk
        /\ pc = "resched"
        /\ colour = before.colour
        /\ colourIndex = before.colourIndex

\* C17 as claimed: a twinkle starts only when the clock read at line 399
\* exceeds led_due_time, and not within delayBetweenLedChange (10000 ms) of
\* the timestamp of the iteration that made the most recent poll attempt nor
\* of the start of the most recent twinkle.
C17_TwinkleSpacing ==
    [][(pc = "led_check" /\ pc' = "twinkle_fwd") =>
          /\ Gt32(now, led_due_time)
          /\ (lastPollAt # NoPoll) =>
                 Ge32(Sub32(now, lastPollAt[1]), U32(10000))
          /\ (lastTwinkleAt # NoPoll) =>
                 Ge32(Sub32(now, lastTwinkleAt[1]), U32(10000))]_vars

\* The pixel value getColour pairs with a colourIndex.
ClassColour(idx) ==
    CASE idx = 0 -> GREEN
      [] idx = 1 -> YELLOW
      [] idx = 2 -> RED
      [] OTHER -> Off

\* C18 as claimed: in every state from the end of setup() onward colour is
\* the GREEN / YELLOW / RED pixel value that corresponds to colourIndex.
C18_ColourMatchesIndex ==
    (pc \notin {"boot", "provision"}) =>
        /\ colourIndex \in {0, 1, 2}
        /\ colour = ClassColour(colourIndex)

\* C19 as claimed: as long as no poll has succeeded since boot every pixel
\* is off; afterwards every lit pixel shows the colour, or its lighter tint,
\* of the class derived from the most recent successful poll.  The state in
\* which checkGoogleMaps() has returned true and the sweep has not begun yet
\* is left out.
C19_OnlyDataBackedColours ==
    (pc # "sweep_start") =>
        IF lastOkIndex = NoPoll
        THEN \A i \in Leds : pixels[i] = Off
        ELSE \A i \in Leds :
                 pixels[i] \in {Off, ClassColour(lastOkIndex[1]),
                                twinkleTint(lastOkIndex[1])}

============================================================================
